---- MODULE Spec2Model ----
(***************************************************************************)
(* Model of run.py: the sales assistant's pipeline.                        *)
(*                                                                         *)
(*   get_sales_data            the five-minute cache in front of the       *)
(*                             order API and the normalisation of the      *)
(*                             response body                               *)
(*   get_date_range_from_llm   the date range resolver and its fallback    *)
(*   filter_orders_by_date     the state / date filter                     *)
(*   get_analysis_from_gemini  the analysis call and its apology           *)
(*   main                      the session loop that runs the four in turn *)
(*                                                                         *)
(* Python values are encoded as follows.  An optional value (a value or    *)
(* None) is a sequence of length 0 or 1.  A dict is a function whose       *)
(* domain is the set of its keys.  A JSON value is a record with a type    *)
(* tag.  A date is a day number; an instant is a number of ticks, a tick   *)
(* standing for the microsecond, the resolution of datetime.               *)
(***************************************************************************)
EXTENDS Integers, Sequences, FiniteSets, TLC

VARIABLES
    _api_cache,        \* the module-level cache: [data, timestamp]
    last_success,      \* the last fetch that resolved to a list: the list and its clock (optional)
    now,               \* the wall clock read by datetime.datetime.now(), in minutes
    today,             \* the day read by datetime.date.today()
    pc,                \* where main stands
    user_query,        \* main's local user_query
    all_orders,        \* main's local all_orders (optional)
    api_reply,         \* what the order API answered to the request of the last call
    fetch,             \* the last get_sales_data call: its clock and the cache it found
    date_reply,        \* what the LLM answered to the date prompt
    date_range,        \* main's locals (start_date, end_date) (optional)
    filtered_orders,   \* main's local filtered_orders (optional)
    analysis_reply,    \* what the LLM answered to the analysis prompt
    analysis_arg,      \* the order list handed to get_analysis_from_gemini (optional)
    analysis,          \* main's local analysis (optional)
    error,             \* the exception that left the last function called, "none" if none did
    turn,              \* the current turn: the components called and the requests made
    conc               \* callers of get_sales_data running side by side

vars == <<_api_cache, last_success, now, today, pc, user_query, all_orders,
          api_reply, fetch, date_reply, date_range, filtered_orders, analysis_reply,
          analysis_arg, analysis, error, turn, conc>>

----------------------------------------------------------------------------
(* Bounds of the model *)

MaxNow == 7          \* the clock runs over 0..MaxNow minutes
MaxDay == 2          \* days are 0..MaxDay
TicksPerDay == 3     \* a day has TicksPerDay ticks: 0 is time.min, the last time.max
MaxLen == 2          \* order lists handed to the filter have at most MaxLen orders

----------------------------------------------------------------------------
(* Python values *)

None == <<>>
Some(x) == <<x>>

\* d.get(k): the value under k, None when d has no key k
dict_get(d, k) == IF k \in DOMAIN d THEN Some(d[k]) ELSE None

Days == 0..MaxDay
Ticks == 0..(TicksPerDay - 1)

\* datetime.time.min and datetime.time.max
TimeMin == 0
TimeMax == TicksPerDay - 1

\* datetime.datetime.combine(date, time), a naive instant
combine(day, tick) == day * TicksPerDay + tick

----------------------------------------------------------------------------
(* Orders and JSON values *)

\* A createdTime value as the API sends it.  f is its form:
\*   "naive"   2025-11-01T10:00:00     a timestamp without offset
\*   "date"    2025-11-01              a date alone
\*   "aware"   2025-11-01T10:00:00Z    a timestamp with an offset
\*   "garbage" a string that is no ISO-8601 timestamp
\*   "empty"   the empty string
\*   "null"    JSON null
\*   "number"  a JSON number other than 0
Naive(day, tick) == [f |-> "naive", day |-> day, tick |-> tick]
DateOnly(day) == [f |-> "date", day |-> day, tick |-> 0]
Aware(day, tick) == [f |-> "aware", day |-> day, tick |-> tick]
Garbage == [f |-> "garbage", day |-> 0, tick |-> 0]
EmptyStr == [f |-> "empty", day |-> 0, tick |-> 0]
Null == [f |-> "null", day |-> 0, tick |-> 0]
Number == [f |-> "number", day |-> 0, tick |-> 0]
\* Two more forms, met in the date fields of the LLM's answer:
\*   "badcal"  2025-02-30   well formed, but no day of the calendar
\*   "month"   2025-11      a year and a month; day is the month's first day
BadCal == [f |-> "badcal", day |-> 0, tick |-> 0]
YearMonth(day) == [f |-> "month", day |-> day, tick |-> 0]

\* An order is a dict; either key may be missing.
Order(state, createdTime) == ("state" :> state) @@ ("createdTime" :> createdTime)
OrderNoTime(state) == ("state" :> state)
OrderNoState(createdTime) == ("createdTime" :> createdTime)

\* An element of the list that is no JSON object (a string, a number): the API
\* may send one, and get_sales_data looks at no element.
NotADict == ("not_a_dict" :> "abc")
is_dict(order) == "not_a_dict" \notin DOMAIN order

\* A JSON value: a list of orders, a dict of JSON values, or anything else.
JList(items) == [type |-> "list", items |-> items, members |-> <<>>]
JDict(members) == [type |-> "dict", items |-> <<>>, members |-> members]
JScalar == [type |-> "scalar", items |-> <<>>, members |-> <<>>]

\* What requests.get, raise_for_status and response.json come to:
\*   "transport_error"  requests.get raises a RequestException
\*   "http_error"       raise_for_status raises HTTPError (4xx, 5xx)
\*   "bad_json"         response.json raises a JSONDecodeError
\*   "ok"               body is the decoded body
\*   "none"             no request was made
ApiFailure(status) == [status |-> status, body |-> JScalar]
ApiBody(body) == [status |-> "ok", body |-> body]
NoRequest == [status |-> "none", body |-> JScalar]

----------------------------------------------------------------------------
(* 2. API client, with caching and validation *)

CACHE_DURATION == 5

EmptyCache == [data |-> None, timestamp |-> None]

\* The truth value Python gives _api_cache["data"]: None and [] are false.
data_truthy(data) == data # None /\ Len(data[1]) > 0

\* The truth value of _api_cache["timestamp"]: a datetime is always true.
timestamp_truthy(timestamp) == timestamp # None

\* Variant of cache_is_valid: the entry still counts at exactly CACHE_DURATION.
cache_is_valid_inclusive(cache, t) ==
    /\ data_truthy(cache.data) /\ timestamp_truthy(cache.timestamp)
    /\ t - cache.timestamp[1] <= CACHE_DURATION

\* "Check if cache is valid": the two conditions of lines 46 and 47.
cache_is_valid(cache, t) ==
    /\ data_truthy(cache.data) /\ timestamp_truthy(cache.timestamp)
    /\ t - cache.timestamp[1] < CACHE_DURATION

\* The except clauses: RequestException (HTTPError is one; so is the
\* JSONDecodeError of requests) and json.JSONDecodeError.
request_failed(reply) == reply.status \in {"transport_error", "http_error", "bad_json"}

\* Variant of orders_list: the key results is tried before the key data.
orders_list_results_first(data) ==
    IF data.type = "dict"
    THEN IF "results" \in DOMAIN data.members /\ data.members["results"].type = "list"
         THEN Some(data.members["results"].items)
         ELSE IF "data" \in DOMAIN data.members /\ data.members["data"].type = "list"
         THEN Some(data.members["data"].items)
         ELSE IF "orders" \in DOMAIN data.members /\ data.members["orders"].type = "list"
         THEN Some(data.members["orders"].items)
         ELSE None
    ELSE IF data.type = "list"
    THEN Some(data.items)
    ELSE None

\* orders_list as lines 58 to 83 leave it: None stands for the two
\* "return None" branches.
orders_list(data) ==
    IF data.type = "dict"
    THEN IF "data" \in DOMAIN data.members /\ data.members["data"].type = "list"
         THEN Some(data.members["data"].items)
         ELSE IF "results" \in DOMAIN data.members /\ data.members["results"].type = "list"
         THEN Some(data.members["results"].items)
         ELSE IF "orders" \in DOMAIN data.members /\ data.members["orders"].type = "list"
         THEN Some(data.members["orders"].items)
         ELSE None
    ELSE IF data.type = "list"
    THEN Some(data.items)
    ELSE None

\* Variant of updated_cache: the timestamp is not written.
updated_cache_data_only(cache, list, t) ==
    [data |-> Some(list), timestamp |-> cache.timestamp]

\* "Update cache with the actual list"
updated_cache(cache, list, t) == [data |-> Some(list), timestamp |-> Some(t)]

\* Variant of get_sales_data: a failed request empties the cache.
get_sales_data_clearing(cache, t, reply) ==
    IF cache_is_valid(cache, t)
    THEN [ret |-> cache.data, cache |-> cache, requested |-> FALSE]
    ELSE IF request_failed(reply)
    THEN [ret |-> None, cache |-> EmptyCache, requested |-> TRUE]
    ELSE IF orders_list(reply.body) = None
    THEN [ret |-> None, cache |-> cache, requested |-> TRUE]
    ELSE [ret |-> orders_list(reply.body),
          cache |-> updated_cache(cache, orders_list(reply.body)[1], t),
          requested |-> TRUE]

\* Variant of get_sales_data: when the request fails, the list in the cache
\* is returned, however old.
get_sales_data_stale_on_failure(cache, t, reply) ==
    IF cache_is_valid(cache, t)
    THEN [ret |-> cache.data, cache |-> cache, requested |-> FALSE]
    ELSE IF request_failed(reply)
    THEN [ret |-> cache.data, cache |-> cache, requested |-> TRUE]
    ELSE IF orders_list(reply.body) = None
    THEN [ret |-> None, cache |-> cache, requested |-> TRUE]
    ELSE [ret |-> orders_list(reply.body),
          cache |-> updated_cache(cache, orders_list(reply.body)[1], t),
          requested |-> TRUE]

\* get_sales_data called at clock t with the cache as it stands; reply is
\* what the order API answers if it is asked.  The result is the value
\* returned, the cache afterwards and whether a request was made.
get_sales_data(cache, t, reply) ==
    IF cache_is_valid(cache, t)
    THEN [ret |-> cache.data, cache |-> cache, requested |-> FALSE]
    ELSE IF request_failed(reply)
    THEN [ret |-> None, cache |-> cache, requested |-> TRUE]
    ELSE IF orders_list(reply.body) = None
    THEN [ret |-> None, cache |-> cache, requested |-> TRUE]
    ELSE [ret |-> orders_list(reply.body),
          cache |-> updated_cache(cache, orders_list(reply.body)[1], t),
          requested |-> TRUE]

\* The requests get_sales_data sends to the order API: the one requests.get
\* of line 53 when the cache is not valid, in no loop.
api_requests_sent(cache, t) == IF cache_is_valid(cache, t) THEN 0 ELSE 1

----------------------------------------------------------------------------
(* Exceptions.  A function's outcome is a record: exc names the exception
   that leaves it ("none" when it returns) and value is what it returns. *)

Returns(v) == [exc |-> "none", value |-> v]
Raises(e) == [exc |-> e, value |-> None]

\* dateutil.parser.isoparse: the datetime read, or the exception raised.
\* A date alone, or a year and a month, reads as that day at 00:00:00; an
\* offset makes the datetime aware; a value that is no string is a TypeError.
isoparse(v) ==
    IF v.f \in {"naive", "aware"}
    THEN Returns([aware |-> v.f = "aware", day |-> v.day, tick |-> v.tick])
    ELSE IF v.f \in {"date", "month"}
    THEN Returns([aware |-> FALSE, day |-> v.day, tick |-> TimeMin])
    ELSE IF v.f \in {"null", "number"}
    THEN Raises("TypeError")
    ELSE Raises("ValueError")

----------------------------------------------------------------------------
(* 3. Smart date parsing *)

\* The LLM's answer to a prompt:
\*   "raises"   client.models.generate_content raises
\*   "no_text"  the response has no text: response.text is None
\*   "text"     response.text is text
\* A text is a sequence of tokens: the two code-fence markers (three
\* backquotes followed by json, three backquotes alone), prose, and JSON
\* values.
LlmRaises == [kind |-> "raises", text |-> <<>>]
LlmNoText == [kind |-> "no_text", text |-> <<>>]
LlmText(text) == [kind |-> "text", text |-> text]

FenceJson == [tok |-> "fence_json", val |-> JScalar]
Fence == [tok |-> "fence", val |-> JScalar]
Prose == [tok |-> "prose", val |-> JScalar]
Json(val) == [tok |-> "json", val |-> val]

\* response.text.strip() and the two replace calls that delete the markers
\* Variant of strip_fences: the fence markers are left in the text.
strip_fences_kept(text) == text

strip_fences(text) == SelectSeq(text, LAMBDA tok : tok.tok \notin {"fence_json", "fence"})

\* json.loads: the text must be one JSON value and nothing else.
json_loads(text) ==
    IF Len(text) = 1 /\ text[1].tok = "json"
    THEN Returns(text[1].val)
    ELSE Raises("JSONDecodeError")

\* dates[key]: a TypeError unless dates is a dict, a KeyError without the key.
subscript(dates, key) ==
    IF dates.type # "dict" THEN Raises("TypeError")
    ELSE IF key \notin DOMAIN dates.members THEN Raises("KeyError")
    ELSE Returns(dates.members[key])

\* isoparse(dates[key]).date()
date_field(dates, key) ==
    IF subscript(dates, key).exc # "none" THEN subscript(dates, key)
    ELSE IF isoparse(subscript(dates, key).value).exc # "none"
    THEN isoparse(subscript(dates, key).value)
    ELSE Returns(isoparse(subscript(dates, key).value).value.day)

\* The body of the try statement, lines 123 to 136.
date_range_try(reply) ==
    IF reply.kind = "raises" THEN Raises("APIError")
    ELSE IF reply.kind = "no_text" THEN Raises("AttributeError")
    ELSE LET dates == json_loads(strip_fences(reply.text)) IN
         IF dates.exc # "none" THEN dates
         ELSE IF date_field(dates.value, "start_date").exc # "none"
         THEN date_field(dates.value, "start_date")
         ELSE IF date_field(dates.value, "end_date").exc # "none"
         THEN date_field(dates.value, "end_date")
         ELSE Returns(<<date_field(dates.value, "start_date").value,
                        date_field(dates.value, "end_date").value>>)

\* Variant of date_range_caught: "except json.JSONDecodeError".
date_range_caught_json_only(exc) == exc = "JSONDecodeError"

\* "except Exception": every exception the try statement can raise is one.
date_range_caught(exc) == exc # "none"

\* get_date_range_from_llm on the day t, the LLM answering reply.
get_date_range_from_llm(reply, t) ==
    IF date_range_caught(date_range_try(reply).exc)
    THEN Returns(<<t, t>>)
    ELSE date_range_try(reply)

\* Variant of date_llm_calls: a failed call is made once more.
date_llm_calls_retry(reply) == IF reply.kind = "raises" THEN 2 ELSE 1

\* The LLM requests get_date_range_from_llm makes: the one generate_content
\* of line 123, in no loop; the except clause makes none.
date_llm_calls(reply) == 1

----------------------------------------------------------------------------
(* 4. Data filtering *)

\* Variant of is_locked: the state is not looked at.
is_locked_any(order) == TRUE

\* order.get("state") == "locked"
is_locked(order) == dict_get(order, "state") = Some("locked")

\* The truth value of created_time_str: None (no such key, or JSON null)
\* and the empty string are false.
created_time_truthy(created_time_str) ==
    created_time_str # None /\ created_time_str[1].f \notin {"null", "empty"}

\* Variant of in_range: the end of the range is excluded.
in_range_exclusive(start_dt, created_dt, end_dt) ==
    start_dt <= created_dt /\ created_dt < end_dt

\* Variant of in_range: the two ends are put in order before the test.
in_range_reordered(start_dt, created_dt, end_dt) ==
    \/ start_dt <= created_dt /\ created_dt <= end_dt
    \/ end_dt <= created_dt /\ created_dt <= start_dt

\* start_dt <= created_dt <= end_dt, on naive instants
in_range(start_dt, created_dt, end_dt) == start_dt <= created_dt /\ created_dt <= end_dt

\* The body of the try statement for one locked order, lines 160 to 170:
\* whether the order is appended, or the exception raised.  Comparing the
\* naive start_dt with an aware created_dt is a TypeError.
order_try(order, start_dt, end_dt) ==
    LET created_time_str == dict_get(order, "createdTime") IN
    IF ~created_time_truthy(created_time_str) THEN Returns(FALSE)
    ELSE LET created_dt == isoparse(created_time_str[1]) IN
         IF created_dt.exc # "none" THEN created_dt
         ELSE IF created_dt.value.aware THEN Raises("TypeError")
         ELSE Returns(in_range(start_dt,
                               combine(created_dt.value.day, created_dt.value.tick),
                               end_dt))

\* Variant of order_caught: "except ValueError".
order_caught_value_error(exc) == exc = "ValueError"

\* "except Exception" of line 171
order_caught(exc) == exc # "none"

\* The for loop over the orders left, filtered_orders being filtered so far.
RECURSIVE filter_loop(_, _, _, _)
filter_loop(orders, filtered, start_dt, end_dt) ==
    IF orders = <<>> THEN Returns(filtered)
    ELSE LET order == Head(orders) IN
         IF ~is_dict(order) THEN Raises("AttributeError")
         ELSE IF is_locked(order)
         THEN LET r == order_try(order, start_dt, end_dt) IN
              IF r.exc # "none"
              THEN IF order_caught(r.exc)
                   THEN filter_loop(Tail(orders), filtered, start_dt, end_dt)
                   ELSE Raises(r.exc)
              ELSE IF r.value
              THEN filter_loop(Tail(orders), Append(filtered, order), start_dt, end_dt)
              ELSE filter_loop(Tail(orders), filtered, start_dt, end_dt)
         ELSE filter_loop(Tail(orders), filtered, start_dt, end_dt)

\* filter_orders_by_date; orders is the optional parameter all_orders,
\* "not all_orders" being true of None and of the empty list.
filter_orders_by_date(orders, start_date, end_date) ==
    LET start_dt == combine(start_date, TimeMin)
        end_dt == combine(end_date, TimeMax)
    IN  IF ~data_truthy(orders) THEN Returns(<<>>)
        ELSE filter_loop(orders[1], <<>>, start_dt, end_dt)

\* Variant of orders_after_filter: the orders left out are removed from
\* all_orders itself.
orders_after_filter_in_place(orders, start_date, end_date) ==
    IF orders = None \/ filter_orders_by_date(orders, start_date, end_date).exc # "none"
    THEN orders
    ELSE Some(filter_orders_by_date(orders, start_date, end_date).value)

\* all_orders after filter_orders_by_date: the function appends to the list
\* it made at line 148 and only reads all_orders and its orders.
orders_after_filter(orders, start_date, end_date) == orders

----------------------------------------------------------------------------
(* 5. LLM analysis *)

\* A text of the analysis is a sequence of words; "" is the empty sequence.
APOLOGY == <<"I'm sorry, I encountered an error while analyzing the sales data.">>

\* The body of the try statement, lines 208 to 212: response.text, which is
\* None when the response has no text.
analysis_try(reply) ==
    IF reply.kind = "raises" THEN Raises("APIError")
    ELSE IF reply.kind = "no_text" THEN Returns(None)
    ELSE Returns(Some(reply.text))

\* Variant of analysis_caught: no except clause.
analysis_caught_never(exc) == FALSE

\* "except Exception" of line 213
analysis_caught(exc) == exc # "none"

\* get_analysis_from_gemini, the LLM answering reply.  The prompt holds
\* json.dumps(orders), which cannot fail on orders decoded from JSON.
get_analysis_from_gemini(reply, orders) ==
    IF analysis_caught(analysis_try(reply).exc)
    THEN Returns(Some(APOLOGY))
    ELSE analysis_try(reply)

\* The LLM requests get_analysis_from_gemini makes: the one generate_content
\* of line 208.
analysis_llm_calls(reply) == 1

\* orders after get_analysis_from_gemini: json.dumps only reads the list.
orders_after_analysis(orders) == orders

----------------------------------------------------------------------------
(* What the environment can send *)

O_LOCKED == Order("locked", Naive(1, TimeMax))
O_PENDING == Order("pending", Naive(1, TimeMin))
O_NOTIME == OrderNoTime("locked")

\* The order lists the order API sends in a session
ApiLists == {<<>>, <<O_LOCKED>>, <<O_PENDING, O_NOTIME, O_LOCKED>>, <<NotADict>>}

\* The answers of the order API in a session
SessionApiReplies ==
    {ApiFailure(s) : s \in {"transport_error", "http_error", "bad_json"}}
    \cup {ApiBody(JList(l)) : l \in ApiLists}
    \cup {ApiBody(JDict("results" :> JList(<<O_LOCKED>>))),
          ApiBody(JDict("foo" :> JList(<<O_LOCKED>>))),
          ApiBody(JScalar)}

\* {"start_date": ..., "end_date": ...}
DateObject(start, end) == JDict(("start_date" :> start) @@ ("end_date" :> end))

NoReply == [kind |-> "none", text |-> <<>>]

\* The answers of the LLM to the date prompt in a session
SessionDateReplies ==
    {LlmRaises,
     LlmText(<<Prose>>),
     LlmText(<<FenceJson, Json(DateObject(DateOnly(1), DateOnly(1))), Fence>>),
     LlmText(<<Json(DateObject(DateOnly(0), DateOnly(MaxDay)))>>),
     LlmText(<<Json(DateObject(DateOnly(MaxDay), DateOnly(0)))>>)}

\* The answers of the LLM to the analysis prompt
AnalysisReplies == {LlmRaises, LlmNoText, LlmText(<<>>), LlmText(<<"answer">>)}

\* What the user types
Queries == {"how much revenue?", "exit", "quit", "EXIT", "Quit"}

\* Variant of lower: the case is kept.
lower_identity(q) == q

\* str.lower on the queries
lower(q) == IF q \in {"exit", "EXIT"} THEN "exit"
            ELSE IF q \in {"quit", "Quit"} THEN "quit"
            ELSE q

----------------------------------------------------------------------------
(* The steps of the four functions on the state *)

\* fetch before any call.  Of a call it keeps: at, the clock it read; found,
\* the cache it found; prior, the last successful fetch before it; and
\* requested, whether it asked the order API.
NoFetch == [called |-> FALSE, at |-> 0, found |-> EmptyCache, prior |-> None,
            requested |-> FALSE]

\* all_orders = get_sales_data(), the order API answering reply if asked
CallGetSalesData(reply) ==
    LET r == get_sales_data(_api_cache, now, reply) IN
    /\ _api_cache' = r.cache
    /\ all_orders' = r.ret
    /\ api_reply' = IF r.requested THEN reply ELSE NoRequest
    /\ fetch' = [called |-> TRUE, at |-> now, found |-> _api_cache,
                 prior |-> last_success, requested |-> r.requested]
    /\ last_success' = IF r.requested /\ r.ret # None
                       THEN Some([list |-> r.ret[1], at |-> now])
                       ELSE last_success
    /\ error' = "none"

\* start_date, end_date = get_date_range_from_llm(client, user_query)
CallGetDateRange(reply) ==
    LET r == get_date_range_from_llm(reply, today) IN
    /\ date_reply' = reply
    /\ date_range' = IF r.exc = "none" THEN Some(r.value) ELSE None
    /\ error' = r.exc

\* filtered_orders = filter_orders_by_date(all_orders, start_date, end_date)
\* all_orders is the list object the cache holds whenever the two are equal:
\* what the filter does to the one it does to the other.
CallFilterOrders ==
    LET r == filter_orders_by_date(all_orders, date_range[1][1], date_range[1][2])
        after == orders_after_filter(all_orders, date_range[1][1], date_range[1][2])
    IN
    /\ filtered_orders' = IF r.exc = "none" THEN Some(r.value) ELSE None
    /\ error' = r.exc
    /\ all_orders' = after
    /\ _api_cache' = IF _api_cache.data = all_orders
                     THEN [_api_cache EXCEPT !.data = after]
                     ELSE _api_cache

\* analysis = get_analysis_from_gemini(client, user_query, filtered_orders)
CallGetAnalysis(reply) ==
    LET r == get_analysis_from_gemini(reply, filtered_orders[1]) IN
    /\ analysis_reply' = reply
    /\ analysis_arg' = filtered_orders
    /\ analysis' = IF r.exc = "none" THEN r.value ELSE None
    /\ error' = r.exc
    /\ filtered_orders' = Some(orders_after_analysis(filtered_orders[1]))

----------------------------------------------------------------------------
(* 6. Main application loop *)

\* The four components in the order main calls them
Components == <<"fetcher", "resolver", "filter", "analyst">>

\* turn before any component is called
NoTurn == [trace |-> <<>>, api_requests |-> 0, llm_requests |-> 0]

\* The component is called and makes api, llm requests
Called(component, api, llm) ==
    turn' = [trace |-> Append(turn.trace, component),
             api_requests |-> turn.api_requests + api,
             llm_requests |-> turn.llm_requests + llm]

\* Variant of after_fetch: the turn ends after the fetch whatever it returned.
after_fetch_end_turn(ret) == "input"

\* Variant of after_fetch: the result is not tested and the turn goes on.
after_fetch_unchecked(ret) == "resolve"

\* Where main goes after get_sales_data: "if all_orders is None: continue"
after_fetch(ret) == IF ret = None THEN "input" ELSE "resolve"

\* Variant of after_filter: an empty result ends the turn without analysis.
after_filter_skip_empty(exc, filtered) ==
    IF exc # "none" \/ filtered = Some(<<>>) THEN "input" ELSE "analyse"

\* Where main goes after filter_orders_by_date: on to the analysis, whatever
\* the list; an exception is caught at line 263
after_filter(exc, filtered) == IF exc # "none" THEN "input" ELSE "analyse"

\* No caller of get_sales_data other than main
NoCallers == [thread |-> <<>>, data_from |-> 0, timestamp_from |-> 0, fetches |-> 0]

fetch_vars == <<all_orders, api_reply, fetch>>
date_vars == <<date_reply, date_range>>
analysis_vars == <<analysis_reply, analysis_arg, analysis>>
clock_vars == <<now, today>>

\* The locals of a turn before the turn has set them
FreshFetch == all_orders = None /\ api_reply = NoRequest /\ fetch = NoFetch
FreshDates == date_reply = NoReply /\ date_range = None
FreshAnalysis == analysis_reply = NoReply /\ analysis_arg = None /\ analysis = None

FreshTurn ==
    /\ all_orders' = None /\ api_reply' = NoRequest /\ fetch' = NoFetch
    /\ date_reply' = NoReply /\ date_range' = None
    /\ filtered_orders' = None
    /\ analysis_reply' = NoReply /\ analysis_arg' = None /\ analysis' = None

Init ==
    /\ _api_cache = EmptyCache
    /\ last_success = None
    /\ now = 0
    /\ today = 1
    /\ pc = "input"
    /\ user_query = None
    /\ error = "none"
    /\ turn = NoTurn
    /\ conc = NoCallers
    /\ FreshFetch /\ FreshDates /\ filtered_orders = None /\ FreshAnalysis

\* user_query = input("> "), and the test for exit and quit
ReadInput ==
    /\ pc = "input"
    /\ \E q \in Queries :
         /\ user_query' = Some(q)
         /\ pc' = IF lower(q) \in {"exit", "quit"} THEN "done" ELSE "fetch"
    /\ FreshTurn
    /\ error' = "none"
    /\ turn' = NoTurn
    /\ UNCHANGED conc
    /\ UNCHANGED <<_api_cache, last_success, clock_vars>>

\* input("> ") raises EOFError, the standard input being closed; it is caught
\* at line 263 and the loop calls input again
InputEOF ==
    /\ pc = "input"
    /\ pc' = "input"
    /\ error' = "EOFError"
    /\ FreshTurn
    /\ turn' = NoTurn
    /\ UNCHANGED conc
    /\ UNCHANGED <<_api_cache, last_success, clock_vars, user_query>>

\* Step 1 of a turn; None sends main back to input (continue)
GetSalesData ==
    /\ pc = "fetch"
    /\ \E reply \in SessionApiReplies : CallGetSalesData(reply)
    /\ Called("fetcher", api_requests_sent(_api_cache, now), 0)
    /\ pc' = after_fetch(all_orders')
    /\ UNCHANGED conc
    /\ UNCHANGED <<clock_vars, user_query, date_vars, filtered_orders, analysis_vars>>

\* Step 2 of a turn; an exception leaving the function is caught at line 263
GetDateRange ==
    /\ pc = "resolve"
    /\ \E reply \in SessionDateReplies :
         CallGetDateRange(reply) /\ Called("resolver", 0, date_llm_calls(reply))
    /\ pc' = IF error' # "none" THEN "input" ELSE "filter"
    /\ UNCHANGED conc
    /\ UNCHANGED <<_api_cache, last_success, clock_vars, user_query, fetch_vars, filtered_orders,
                   analysis_vars>>

\* Step 3 of a turn
FilterOrders ==
    /\ pc = "filter"
    /\ CallFilterOrders
    /\ Called("filter", 0, 0)
    /\ pc' = after_filter(error', filtered_orders')
    /\ UNCHANGED conc
    /\ UNCHANGED <<last_success, clock_vars, user_query, api_reply, fetch, date_vars,
                   analysis_vars>>

\* Step 4 of a turn
GetAnalysis ==
    /\ pc = "analyse"
    /\ \E reply \in AnalysisReplies :
         CallGetAnalysis(reply) /\ Called("analyst", 0, analysis_llm_calls(reply))
    /\ pc' = IF error' # "none" THEN "input" ELSE "present"
    /\ UNCHANGED conc
    /\ UNCHANGED <<_api_cache, last_success, clock_vars, user_query, fetch_vars, date_vars>>

\* Step 5 of a turn, the prints: len(analysis) is a TypeError when analysis
\* is None, caught at line 263.  The turn is over and its locals are dead.
Present ==
    /\ pc = "present"
    /\ pc' = "input"
    /\ error' = IF analysis = None THEN "TypeError" ELSE "none"
    /\ FreshTurn
    /\ UNCHANGED conc
    /\ UNCHANGED <<_api_cache, last_success, clock_vars, user_query, turn>>

\* KeyboardInterrupt, at input or in a blocking call: break
Interrupt ==
    /\ pc \in {"input", "fetch", "resolve", "analyse"}
    /\ pc' = "done"
    /\ error' = "KeyboardInterrupt"
    /\ UNCHANGED conc
    /\ UNCHANGED <<_api_cache, last_success, clock_vars, user_query, fetch_vars,
                   date_vars, filtered_orders, analysis_vars, turn>>

\* A minute passes while main waits at input
Tick ==
    /\ pc = "input"
    /\ now < MaxNow
    /\ now' = now + 1
    /\ UNCHANGED conc
    /\ UNCHANGED <<_api_cache, last_success, today, pc, user_query, fetch_vars,
                   date_vars, filtered_orders, analysis_vars, error, turn>>

\* Midnight passes while main waits at input
Midnight ==
    /\ pc = "input"
    /\ today < MaxDay
    /\ today' = today + 1
    /\ UNCHANGED conc
    /\ UNCHANGED <<_api_cache, last_success, now, pc, user_query, fetch_vars,
                   date_vars, filtered_orders, analysis_vars, error, turn>>

Next ==
    \/ ReadInput
    \/ InputEOF
    \/ GetSalesData
    \/ GetDateRange
    \/ FilterOrders
    \/ GetAnalysis
    \/ Present
    \/ Interrupt
    \/ Tick
    \/ Midnight

Spec == Init /\ [][Next]_vars

----------------------------------------------------------------------------
(* The four functions one by one: each is called once, on an argument,
   a state and an answer of the environment drawn from the sets below. *)

\* Sequences over S of length at most n
SeqUpTo(S, n) == UNION {[1..k -> S] : k \in 0..n}

\* Functions from a subset of the keys K to V: the dicts with keys among K
Dicts(K, V) == UNION {[D -> V] : D \in SUBSET K}

\* Bodies of the order API: lists, dicts with keys among data, results,
\* orders and foo whose values are lists or not, and other values.
EnvLists == {<<>>, <<O_LOCKED>>, <<O_PENDING>>}
EnvValues == {JScalar} \cup {JList(l) : l \in EnvLists}
UnitBodies ==
    {JList(l) : l \in EnvLists}
    \cup {JDict(m) : m \in Dicts({"data", "results", "orders", "foo"}, EnvValues)}
    \cup {JScalar}
UnitApiReplies ==
    {ApiFailure(s) : s \in {"transport_error", "http_error", "bad_json"}}
    \cup {ApiBody(b) : b \in UnitBodies}

\* The cache before the call: empty, or filled at minute 0
UnitCaches == {EmptyCache, [data |-> Some(<<O_NOTIME>>), timestamp |-> Some(0)]}
UnitClocks == {CACHE_DURATION - 1, CACHE_DURATION}

\* Answers to the date prompt: the two fields, each missing or of any form
DateFields ==
    {DateOnly(d) : d \in Days}
    \cup {Naive(1, TimeMax), Aware(1, TimeMin), YearMonth(0),
          Garbage, BadCal, EmptyStr, Null}
DateJson ==
    {JDict(m) : m \in Dicts({"start_date", "end_date"}, DateFields)}
    \cup {JList(<<>>), JScalar}
UnitDateReplies ==
    {LlmRaises, LlmNoText, LlmText(<<>>), LlmText(<<Prose>>)}
    \cup {LlmText(<<Json(j)>>) : j \in DateJson}
    \cup {LlmText(<<FenceJson, Json(j), Fence>>) : j \in DateJson}
    \cup {LlmText(<<Prose, Json(DateObject(DateOnly(d), DateOnly(d)))>>) : d \in Days}
    \cup {LlmText(<<Json(DateObject(DateOnly(d), DateOnly(d))), Json(JScalar)>>) : d \in Days}

\* Orders for the filter: locked orders at the first and the last instant
\* of every day, locked orders whose createdTime is missing or is no naive
\* timestamp, and orders that are not locked.
UnitOrders ==
    {Order("locked", Naive(d, t)) : d \in Days, t \in {TimeMin, TimeMax}}
    \cup {Order("locked", c) : c \in {Garbage, EmptyStr, Aware(1, TimeMin), DateOnly(1)}}
    \cup {OrderNoTime("locked"), Order("pending", Naive(1, TimeMin)),
          OrderNoState(Naive(1, TimeMin))}
UnitOrderLists == {None} \cup {Some(l) : l \in SeqUpTo(UnitOrders, MaxLen)}

InitUnitFetch ==
    /\ pc = "unit_fetch"
    /\ _api_cache \in UnitCaches
    /\ now \in UnitClocks
    /\ api_reply \in UnitApiReplies
    /\ last_success = IF _api_cache.data = None THEN None
                      ELSE Some([list |-> _api_cache.data[1], at |-> _api_cache.timestamp[1]])
    /\ today = 1 /\ user_query = None /\ error = "none"
    /\ turn = NoTurn /\ conc = NoCallers
    /\ all_orders = None /\ fetch = NoFetch
    /\ FreshDates /\ filtered_orders = None /\ FreshAnalysis

InitUnitResolve ==
    /\ pc = "unit_resolve"
    /\ today \in Days
    /\ date_reply \in UnitDateReplies
    /\ _api_cache = EmptyCache /\ last_success = None /\ now = 0
    /\ user_query = None /\ error = "none"
    /\ turn = NoTurn /\ conc = NoCallers
    /\ FreshFetch /\ date_range = None /\ filtered_orders = None /\ FreshAnalysis

InitUnitFilter ==
    /\ pc = "unit_filter"
    /\ all_orders \in UnitOrderLists
    /\ date_range \in {Some(<<s, e>>) : s \in Days, e \in Days}
    /\ _api_cache = EmptyCache /\ last_success = None /\ now = 0 /\ today = 1
    /\ user_query = None /\ error = "none"
    /\ turn = NoTurn /\ conc = NoCallers
    /\ api_reply = NoRequest /\ fetch = NoFetch
    /\ date_reply = NoReply /\ filtered_orders = None /\ FreshAnalysis

InitUnitAnalyse ==
    /\ pc = "unit_analyse"
    /\ filtered_orders \in {Some(l) : l \in ApiLists}
    /\ analysis_reply \in AnalysisReplies
    /\ _api_cache = EmptyCache /\ last_success = None /\ now = 0 /\ today = 1
    /\ user_query = None /\ error = "none"
    /\ turn = NoTurn /\ conc = NoCallers
    /\ FreshFetch /\ FreshDates /\ analysis_arg = None /\ analysis = None

InitUnit == InitUnitFetch \/ InitUnitResolve \/ InitUnitFilter \/ InitUnitAnalyse

UnitGetSalesData ==
    /\ pc = "unit_fetch"
    /\ CallGetSalesData(api_reply)
    /\ pc' = "unit_fetched"
    /\ UNCHANGED <<turn, conc>>
    /\ UNCHANGED <<clock_vars, user_query, date_vars, filtered_orders, analysis_vars>>

UnitGetDateRange ==
    /\ pc = "unit_resolve"
    /\ CallGetDateRange(date_reply)
    /\ pc' = "unit_resolved"
    /\ UNCHANGED <<turn, conc>>
    /\ UNCHANGED <<_api_cache, last_success, clock_vars, user_query, fetch_vars, filtered_orders,
                   analysis_vars>>

UnitFilterOrders ==
    /\ pc = "unit_filter"
    /\ CallFilterOrders
    /\ pc' = "unit_filtered"
    /\ UNCHANGED <<turn, conc>>
    /\ UNCHANGED <<last_success, clock_vars, user_query, api_reply, fetch, date_vars,
                   analysis_vars>>

UnitGetAnalysis ==
    /\ pc = "unit_analyse"
    /\ CallGetAnalysis(analysis_reply)
    /\ pc' = "unit_analysed"
    /\ UNCHANGED <<turn, conc>>
    /\ UNCHANGED <<_api_cache, last_success, clock_vars, user_query, fetch_vars, date_vars>>

NextUnit == UnitGetSalesData \/ UnitGetDateRange \/ UnitFilterOrders \/ UnitGetAnalysis

SpecUnit == InitUnit /\ [][NextUnit]_vars

----------------------------------------------------------------------------
(* Properties of get_sales_data over a session *)

\* The last call found a successful fetch less than CACHE_DURATION old.
CalledWithinDuration ==
    /\ fetch.called /\ fetch.prior # None
    /\ fetch.at - fetch.prior[1].at < CACHE_DURATION

\* The last call found no entry, or a successful fetch CACHE_DURATION old
\* or older.
CalledOnEmptyOrExpired ==
    /\ fetch.called
    /\ \/ fetch.found = EmptyCache
       \/ fetch.prior # None /\ fetch.at - fetch.prior[1].at >= CACHE_DURATION

\* The request of the last call failed: transport, HTTP status or body.
RequestFailed ==
    /\ fetch.called /\ fetch.requested
    /\ api_reply.status \in {"transport_error", "http_error", "bad_json"}

\* C1: a call made less than 5 minutes after the most recent successful
\* fetch (one that resolved to a list of any length, zero included) makes
\* no request to the order API and returns the list that fetch returned.
C1_RecentFetchIsServedFromCache ==
    CalledWithinDuration =>
        ~fetch.requested /\ all_orders = Some(fetch.prior[1].list)

\* C2: a call made when the cache is empty, or 5 minutes or more after the
\* timestamp of the last successful fetch, makes a request to the order
\* API; exactly 5 minutes counts as expired.
C2_EmptyOrExpiredCacheRequests ==
    CalledOnEmptyOrExpired => fetch.requested

\* A call exactly CACHE_DURATION after a successful fetch of a list that is
\* not empty has made a request.
C2_Witness ==
    /\ fetch.called /\ fetch.prior # None
    /\ fetch.prior[1].list # <<>>
    /\ fetch.at - fetch.prior[1].at = CACHE_DURATION
    /\ fetch.requested

\* C3: when the request of a call fails (transport failure, non-success
\* status, unparseable body) the call returns None and both fields of the
\* cache have the values they had before the call.
C3_FailedRequestLeavesCache ==
    RequestFailed =>
        /\ all_orders = None
        /\ _api_cache.data = fetch.found.data
        /\ _api_cache.timestamp = fetch.found.timestamp

\* A call found an expired entry, its request failed on the body, and the
\* entry is still there.
C3_Witness ==
    /\ RequestFailed
    /\ api_reply.status = "bad_json"
    /\ fetch.found.data # None
    /\ _api_cache = fetch.found
    /\ all_orders = None

\* C5: the data of the cache is present exactly when its timestamp is; both
\* are absent until a fetch resolves to a list, and such a fetch replaces
\* both, the data by its list and the timestamp by its clock.
C5_DataIffTimestamp ==
    /\ _api_cache.data # None <=> _api_cache.timestamp # None
    /\ last_success = None => _api_cache = EmptyCache
    /\ (fetch.called /\ fetch.requested /\ all_orders # None) =>
           /\ _api_cache.data = all_orders
           /\ _api_cache.timestamp = Some(fetch.at)

\* A fetch that resolved to a list has replaced an older entry, both fields.
C5_Witness ==
    /\ fetch.called /\ fetch.requested /\ all_orders # None
    /\ fetch.found.data # None
    /\ _api_cache.data # fetch.found.data
    /\ _api_cache.timestamp # fetch.found.timestamp

----------------------------------------------------------------------------
(* Properties of the four functions, each called once *)

\* The keys under which the order list is looked for, first match first
EnvelopeKeys == <<"data", "results", "orders">>

\* The places in EnvelopeKeys of the keys of dict d whose value is a list
ListKeys(d) ==
    {i \in 1..Len(EnvelopeKeys) :
        /\ EnvelopeKeys[i] \in DOMAIN d.members
        /\ d.members[EnvelopeKeys[i]].type = "list"}

Least(S) == CHOOSE i \in S : \A j \in S : i <= j

\* What the normalisation is to give for a body
Normalised(body) ==
    IF body.type = "list" THEN Some(body.items)
    ELSE IF body.type = "dict" /\ ListKeys(body) # {}
    THEN Some(body.members[EnvelopeKeys[Least(ListKeys(body))]].items)
    ELSE None

\* The call asked the order API and got a body
GotBody == fetch.called /\ fetch.requested /\ api_reply.status = "ok"

\* C4: for a successful response the call returns the body if it is a
\* list; if it is a dict, the value of the first of the keys data, results,
\* orders whose value is a list; and None, without writing the cache, if
\* the dict has no such key or the body is neither a list nor a dict.
C4_EnvelopeNormalisation ==
    GotBody =>
        /\ all_orders = Normalised(api_reply.body)
        /\ Normalised(api_reply.body) = None => _api_cache = fetch.found

\* A dict whose data is no list and whose results and orders are different
\* lists has given the list under results.
C4_Witness ==
    /\ pc = "unit_fetched" /\ GotBody
    /\ api_reply.body = JDict(("data" :> JScalar) @@ ("results" :> JList(<<O_LOCKED>>))
                              @@ ("orders" :> JList(<<O_PENDING>>)))
    /\ all_orders = Some(<<O_LOCKED>>)

\* The JSON values of a text
JsonTokens(text) == SelectSeq(text, LAMBDA tok : tok.tok = "json")

\* The text is one JSON object, alone or between code-fence markers
IsOneObject(text) ==
    /\ Len(JsonTokens(text)) = 1
    /\ JsonTokens(text)[1].val.type = "dict"
    /\ text \in {<<JsonTokens(text)[1]>>, <<FenceJson, JsonTokens(text)[1], Fence>>}

\* The value is no calendar date: a string that is no date, a date that is
\* not in the calendar, or no string at all.
NotACalendarDate(v) == v.f \in {"garbage", "badcal", "empty", "null", "number"}

\* The answer is one on which the resolver has to fall back
MustFallBack(reply) ==
    \/ reply.kind = "raises"
    \/ reply.kind = "no_text"
    \/ reply.kind = "text" /\ ~IsOneObject(reply.text)
    \/ /\ reply.kind = "text" /\ IsOneObject(reply.text)
       /\ \E key \in {"start_date", "end_date"} :
            LET obj == JsonTokens(reply.text)[1].val IN
            \/ key \notin DOMAIN obj.members
            \/ NotACalendarDate(obj.members[key])

\* C6: get_date_range_from_llm is total: if the LLM call raises, the answer
\* is no JSON object, start_date or end_date is missing, or either is no
\* valid calendar date, it raises nothing and returns (today, today).
C6_ResolverFallsBackToToday ==
    (pc = "unit_resolved" /\ MustFallBack(date_reply)) =>
        error = "none" /\ date_range = Some(<<today, today>>)

\* The answer had a valid start_date of another day and an end_date that
\* is not in the calendar; the range is today to today.
C6_Witness ==
    /\ pc = "unit_resolved"
    /\ date_reply = LlmText(<<Json(DateObject(DateOnly(0), BadCal))>>)
    /\ today = 1
    /\ date_range = Some(<<1, 1>>)

\* The order is to pass the filter of the range start to end: it is locked
\* and its createdTime reads as a naive instant of the range.
Qualifies(order, start, end) ==
    /\ "state" \in DOMAIN order /\ order["state"] = "locked"
    /\ "createdTime" \in DOMAIN order
    /\ order["createdTime"].f \in {"naive", "date"}
    /\ start * TicksPerDay <= order["createdTime"].day * TicksPerDay + order["createdTime"].tick
    /\ order["createdTime"].day * TicksPerDay + order["createdTime"].tick
          <= end * TicksPerDay + (TicksPerDay - 1)

\* The list handed to the filter
FilterInput == IF all_orders = None THEN <<>> ELSE all_orders[1]

\* C7: filter_orders_by_date returns exactly the subsequence of its input,
\* in input order, of the orders that are locked and whose parsed
\* createdTime t has start_date 00:00:00 <= t <= end_date 23:59:59.999999.
C7_FilterIsTheSubsequence ==
    pc = "unit_filtered" =>
        /\ error = "none"
        /\ filtered_orders =
              Some(SelectSeq(FilterInput,
                             LAMBDA o : Qualifies(o, date_range[1][1], date_range[1][2])))

\* Of two locked orders, one at the last instant of end_date and one a tick
\* later, the filter has kept the first alone.
C7_Witness ==
    /\ pc = "unit_filtered"
    /\ date_range = Some(<<1, 1>>)
    /\ all_orders = Some(<<Order("locked", Naive(1, TimeMax)),
                           Order("locked", Naive(2, TimeMin))>>)
    /\ filtered_orders = Some(<<Order("locked", Naive(1, TimeMax))>>)

\* The order has no createdTime, or one that cannot be parsed or compared
Malformed(order) ==
    \/ "createdTime" \notin DOMAIN order
    \/ order["createdTime"].f \in {"garbage", "badcal", "empty", "null", "number", "aware"}

\* C8: an order without createdTime, or whose createdTime cannot be parsed
\* or compared, is left out without an exception leaving the filter, and
\* every order after it is still kept when it qualifies.
C8_MalformedOrderIsSkipped ==
    pc = "unit_filtered" =>
        /\ error = "none" /\ filtered_orders # None
        /\ \A i \in 1..Len(FilterInput) :
              Malformed(FilterInput[i]) =>
                 /\ \A k \in 1..Len(filtered_orders[1]) :
                       filtered_orders[1][k] # FilterInput[i]
                 /\ \A j \in (i + 1)..Len(FilterInput) :
                       Qualifies(FilterInput[j], date_range[1][1], date_range[1][2]) =>
                          \E k \in 1..Len(filtered_orders[1]) :
                             filtered_orders[1][k] = FilterInput[j]

\* A locked order whose createdTime has an offset came first and was left
\* out; the order after it was kept.
C8_Witness ==
    /\ pc = "unit_filtered"
    /\ date_range = Some(<<1, 1>>)
    /\ all_orders = Some(<<Order("locked", Aware(1, TimeMin)),
                           Order("locked", Naive(1, TimeMin))>>)
    /\ filtered_orders = Some(<<Order("locked", Naive(1, TimeMin))>>)

\* C9: get_analysis_from_gemini is total: when the LLM call fails it raises
\* nothing and returns the apology; otherwise it returns the text of the
\* response as it is.
C9_AnalysisApologisesOnFailure ==
    pc = "unit_analysed" =>
        /\ error = "none"
        /\ analysis_reply.kind = "raises" => analysis = Some(APOLOGY)
        /\ analysis_reply.kind = "text" => analysis = Some(analysis_reply.text)
        /\ analysis_reply.kind = "no_text" => analysis = None

\* The LLM call failed and the apology came back.
C9_Witness ==
    /\ pc = "unit_analysed"
    /\ analysis_reply.kind = "raises"
    /\ analysis = Some(APOLOGY)
    /\ error = "none"

\* The LLM's answer is the object {"start_date": s, "end_date": e}, both
\* dates in the form YYYY-MM-DD, alone or between fence markers
WellFormedAnswer(s, e) ==
    LET object == Json(DateObject(DateOnly(s), DateOnly(e))) IN
    \/ date_reply = LlmText(<<object>>)
    \/ date_reply = LlmText(<<FenceJson, object, Fence>>)

\* C17: on an answer that is a well-formed object of two valid YYYY-MM-DD
\* dates, fenced or not, get_date_range_from_llm raises nothing and returns
\* exactly (start_date, end_date) as answered, in that order even when the
\* start is after the end; the answer today/today gives (today, today).
C17_WellFormedAnswerIsReturnedAsIs ==
    pc = "unit_resolved" =>
        \A s \in Days, e \in Days :
            WellFormedAnswer(s, e) => error = "none" /\ date_range = Some(<<s, e>>)

\* A fenced answer whose start is after its end, and after today
C17_Witness ==
    /\ pc = "unit_resolved"
    /\ WellFormedAnswer(MaxDay, 0)
    /\ Len(date_reply.text) = 3
    /\ today = 1
    /\ date_range = Some(<<MaxDay, 0>>)

----------------------------------------------------------------------------
(* Properties of a turn of main *)

\* C10: in every turn, every order of the list passed to
\* get_analysis_from_gemini has the state locked.
C10_AnalystReceivesLockedOrdersOnly ==
    analysis_arg # None =>
        \A i \in 1..Len(analysis_arg[1]) :
            /\ "state" \in DOMAIN analysis_arg[1][i]
            /\ analysis_arg[1][i]["state"] = "locked"

\* The list fetched held a pending order of the range resolved, and the
\* analyst was called with the locked order alone.
C10_Witness ==
    /\ pc = "present"
    /\ all_orders = Some(<<O_PENDING, O_NOTIME, O_LOCKED>>)
    /\ date_range = Some(<<1, 1>>)
    /\ analysis_arg = Some(<<O_LOCKED>>)

----------------------------------------------------------------------------
(* Properties of the course of a turn and of the end of the loop *)

\* The number of calls of the component in the turn
Calls(component) ==
    Cardinality({i \in DOMAIN turn.trace : turn.trace[i] = component})

\* C11: in a turn whose fetch succeeded with an empty order list, the filter
\* returns the empty list, and the turn does not reach its end (the result is
\* shown, or the loop is back at input) unless get_analysis_from_gemini was
\* called exactly once, with the empty list; only a keyboard interrupt, which
\* ends the session, stops the turn earlier.
C11_EmptyFetchIsStillAnalysed ==
    all_orders = Some(<<>>) =>
        /\ Calls("filter") > 0 => filtered_orders = Some(<<>>)
        /\ pc \in {"present", "input"} =>
               Calls("analyst") = 1 /\ analysis_arg = Some(<<>>)
        /\ Calls("analyst") <= 1
        /\ pc = "done" => error = "KeyboardInterrupt"

C11_Witness ==
    /\ pc = "present"
    /\ fetch.requested
    /\ all_orders = Some(<<>>)
    /\ filtered_orders = Some(<<>>)
    /\ analysis_arg = Some(<<>>)
    /\ Calls("analyst") = 1

\* s is the beginning of t
IsPrefix(s, t) == Len(s) <= Len(t) /\ SubSeq(t, 1, Len(s)) = s

\* The components of a turn run one after the other in the order of main, each
\* once, and the next is not started before the previous has returned.
TurnInOrder ==
    /\ IsPrefix(turn.trace, Components)
    /\ pc = "fetch" => turn.trace = <<>>
    /\ pc = "resolve" => Len(turn.trace) = 1
    /\ pc = "filter" => Len(turn.trace) = 2
    /\ pc = "analyse" => Len(turn.trace) = 3
    /\ pc = "present" => Len(turn.trace) = 4

\* The loop is back at input after a turn on a query
QueryTurnOver == pc = "input" /\ turn.trace # <<>>

\* C12 as stated: every turn on a query runs the four components in the order
\* fetcher, resolver, filter, analyst, all four before input is read again.
C12_EveryQueryTurnRunsAllFour ==
    /\ TurnInOrder
    /\ QueryTurnOver => turn.trace = Components

\* C12: the components of a turn on a query run in the order fetcher,
\* resolver, filter, analyst, each at most once and none after the next line
\* of input is read; all four run, unless the fetcher returns absent (the turn
\* ends after the fetcher), the filter raises on an element that is no object
\* (the turn ends after the filter), or a keyboard interrupt ends the session.
C12_TurnRunsInOrderUntilItEnds ==
    /\ TurnInOrder
    /\ QueryTurnOver =>
        \/ turn.trace = Components
        \/ turn.trace = <<"fetcher">> /\ fetch.called /\ all_orders = None
        \/ /\ turn.trace = <<"fetcher", "resolver", "filter">>
           /\ error = "AttributeError"
           /\ \E i \in DOMAIN all_orders[1] : ~is_dict(all_orders[1][i])

C12_Witness ==
    /\ QueryTurnOver
    /\ user_query = Some("how much revenue?")
    /\ turn.trace = <<"fetcher">>
    /\ fetch.requested
    /\ all_orders = None

\* The line typed is exit or quit in some case
TypedExitWord == user_query # None /\ user_query[1] \in {"exit", "quit", "EXIT", "Quit"}

\* C13: the loop is left only after a line that is exit or quit in any case,
\* or on a keyboard interrupt; after such a line it is left with no component
\* called and no request made; any other exception of a turn leaves the loop
\* at input, ready to read the next line.
C13_LoopEndsOnExitWordOrInterrupt ==
    /\ pc = "done" => error = "KeyboardInterrupt" \/ TypedExitWord
    /\ TypedExitWord =>
        /\ pc = "done"
        /\ turn = NoTurn
        /\ ~fetch.called /\ date_reply = NoReply /\ analysis_reply = NoReply
    /\ error \notin {"none", "KeyboardInterrupt"} => pc = "input"

\* The analysis came back without text and len(analysis) raised at line 257;
\* the loop is at input again.
C13_Witness ==
    /\ pc = "input"
    /\ error = "TypeError"
    /\ Calls("analyst") = 1
    /\ user_query = Some("how much revenue?")

\* get_sales_data was called in this turn and returned None
FetchReturnedNone == fetch.called /\ all_orders = None

\* C15: in a turn whose get_sales_data call returned None, the fetcher is the
\* only component called and no LLM request is made, the cache is as the call
\* found it, no exception was raised, and main is back at input (where only a
\* keyboard interrupt can end the session).
C15_NoDataEndsTheTurnQuietly ==
    FetchReturnedNone =>
        /\ turn.trace = <<"fetcher">>
        /\ turn.llm_requests = 0
        /\ date_reply = NoReply /\ analysis_reply = NoReply
        /\ _api_cache = fetch.found
        /\ error \in {"none", "KeyboardInterrupt"}
        /\ pc = "input" \/ (pc = "done" /\ error = "KeyboardInterrupt")

\* The refetch of an expired entry failed.
C15_Witness ==
    /\ pc = "input"
    /\ FetchReturnedNone
    /\ api_reply.status = "http_error"
    /\ fetch.found.data # None
    /\ _api_cache.data = Some(<<O_LOCKED>>)

\* C16: nothing is tried twice.  A turn makes at most one request to the
\* order API, exactly one when its get_sales_data call made a request and
\* none otherwise, and one LLM request for each call of the resolver and of
\* the analyst, whether the request succeeded or failed: at most two.
C16_NoRetry ==
    /\ turn.api_requests <= 1
    /\ turn.llm_requests <= 2
    /\ fetch.called => (turn.api_requests = 1 <=> fetch.requested)
    /\ turn.llm_requests = Calls("resolver") + Calls("analyst")

\* Both LLM requests of the turn failed, after a request to the order API.
C16_Witness ==
    /\ pc = "present"
    /\ fetch.requested
    /\ date_reply.kind = "raises"
    /\ analysis_reply.kind = "raises"
    /\ turn.api_requests = 1
    /\ turn.llm_requests = 2

\* The range handed to the filter has its start after its end
InvertedRange == date_range # None /\ date_range[1][1] > date_range[1][2]

\* all_orders is a list of orders, each one an object
ListOfOrders == all_orders # None /\ \A i \in DOMAIN all_orders[1] : is_dict(all_orders[1][i])

\* filter_orders_by_date has been called on all_orders and date_range
FilterRan == Calls("filter") = 1 \/ pc = "unit_filtered"

\* C18: called on a list of orders with start_date after end_date, whatever
\* the orders, filter_orders_by_date raises nothing and returns the empty
\* list; the turn goes on to the analyst, which is called once, on that empty
\* list, before the turn ends (only a keyboard interrupt stops it earlier).
C18_InvertedRangeGivesEmptyList ==
    InvertedRange /\ ListOfOrders /\ FilterRan =>
        /\ filtered_orders = Some(<<>>)
        /\ error # "AttributeError"
        /\ pc = "analyse" => error = "none" /\ Calls("analyst") = 0
        /\ pc \in {"present", "input"} =>
               Calls("analyst") = 1 /\ analysis_arg = Some(<<>>)
        /\ pc = "done" => error = "KeyboardInterrupt"

\* A locked order of day 1 and the range from day MaxDay back to day 0
C18_Witness ==
    /\ pc = "present"
    /\ date_range = Some(<<MaxDay, 0>>)
    /\ all_orders = Some(<<O_PENDING, O_NOTIME, O_LOCKED>>)
    /\ filtered_orders = Some(<<>>)
    /\ analysis_arg = Some(<<>>)

\* C19: the filter and the analyst leave their input as it was.  The cached
\* sequence is, at every point of every turn, the list of the last successful
\* fetch, same orders, same order, same fields; all_orders, the list handed to
\* the filter, stays that cached list; the list handed to the analyst is after
\* the call what it was before; and the filter's result is a list of its own,
\* which may leave orders out while all_orders keeps them.
C19_FilterAndAnalystLeaveInputUnchanged ==
    /\ last_success # None => _api_cache.data = Some(last_success[1].list)
    /\ all_orders # None => all_orders = _api_cache.data
    /\ analysis_arg # None /\ filtered_orders # None => filtered_orders = analysis_arg

\* The filter kept one order of three; the three are still cached.
C19_Witness ==
    /\ pc = "present"
    /\ filtered_orders = Some(<<O_LOCKED>>)
    /\ all_orders = Some(<<O_PENDING, O_NOTIME, O_LOCKED>>)
    /\ _api_cache.data = Some(<<O_PENDING, O_NOTIME, O_LOCKED>>)
    /\ last_success[1].list = <<O_PENDING, O_NOTIME, O_LOCKED>>

\* The call found an entry CACHE_DURATION old or older
FoundExpired ==
    /\ fetch.called
    /\ fetch.found.data # None /\ fetch.found.timestamp # None
    /\ fetch.at - fetch.found.timestamp[1] >= CACHE_DURATION

\* The call returned the list it has just fetched
ReturnedOwnFetch == GotBody /\ all_orders = Normalised(api_reply.body)

\* The call returned the cached list, written less than CACHE_DURATION before
ReturnedFreshEntry ==
    /\ ~fetch.requested
    /\ all_orders = fetch.found.data
    /\ fetch.found.timestamp # None
    /\ fetch.at - fetch.found.timestamp[1] < CACHE_DURATION

\* C20: a list returned by get_sales_data is the list that call fetched, or
\* the cached list with a timestamp less than 5 minutes before the call; a
\* call that finds an expired entry and whose request fails returns None and
\* leaves the entry; and the entry is always the list and the clock of the
\* last successful fetch, so an old snapshot stays until such a fetch.
C20_StaleDataIsNeverServed ==
    /\ fetch.called /\ all_orders # None => ReturnedOwnFetch \/ ReturnedFreshEntry
    /\ FoundExpired /\ RequestFailed => all_orders = None /\ _api_cache = fetch.found
    /\ _api_cache.data # None =>
           /\ last_success # None
           /\ _api_cache = [data |-> Some(last_success[1].list),
                            timestamp |-> Some(last_success[1].at)]

\* The refetch of an expired snapshot of three orders failed: the call
\* returned None and the snapshot is still cached.
C20_Witness ==
    /\ FoundExpired /\ RequestFailed
    /\ api_reply.status = "transport_error"
    /\ all_orders = None
    /\ _api_cache.data = Some(<<O_PENDING, O_NOTIME, O_LOCKED>>)
    /\ now - _api_cache.timestamp[1] >= CACHE_DURATION

----------------------------------------------------------------------------
(* get_sales_data called from two threads.  The function takes no lock: a
   thread can be suspended between any two of its statements, and _api_cache
   is the one module-level dict both work on.  Each action below is one
   thread running one stretch of the function; the test of lines 46-47 is
   taken as one step, and so is the request with the normalisation of its
   answer, which touches locals only. *)

Callers == {1, 2}
MaxFetches == 3      \* the order API answers at most MaxFetches requests with a list

\* A thread outside get_sales_data
Idle == [pc |-> "idle", at |-> 0, orders_list |-> None, id |-> 0, ret |-> None]

\* The answers of the order API to concurrent callers
ConcurrentApiReplies ==
    {ApiFailure("transport_error"), ApiBody(JList(<<O_LOCKED>>)),
     ApiBody(JList(<<O_PENDING, O_NOTIME, O_LOCKED>>))}

other_vars == <<last_success, today, pc, user_query, all_orders, api_reply, fetch,
                date_reply, date_range, filtered_orders, analysis_reply, analysis_arg,
                analysis, error, turn>>

InitConcurrent ==
    /\ pc = "concurrent"
    /\ _api_cache = EmptyCache
    /\ last_success = None
    /\ now = 0 /\ today = 0
    /\ user_query = None /\ error = "none"
    /\ turn = NoTurn
    /\ FreshFetch /\ FreshDates /\ filtered_orders = None /\ FreshAnalysis
    /\ conc = [thread |-> [c \in Callers |-> Idle],
               data_from |-> 0, timestamp_from |-> 0, fetches |-> 0]

\* The thread c goes on as next, the rest of conc as it is
Thread(c, next) == conc' = [conc EXCEPT !.thread[c] = next]

\* line 43: now = datetime.datetime.now()
CallerStart(c) ==
    /\ conc.thread[c].pc = "idle"
    /\ Thread(c, [Idle EXCEPT !.pc = "check", !.at = now])
    /\ UNCHANGED <<_api_cache, now, other_vars>>

\* lines 46-49: the cache is valid and its list is returned, or line 51 is next
CallerCheck(c) ==
    LET me == conc.thread[c] IN
    /\ me.pc = "check"
    /\ IF cache_is_valid(_api_cache, me.at)
       THEN Thread(c, [me EXCEPT !.pc = "return", !.ret = _api_cache.data])
       ELSE Thread(c, [me EXCEPT !.pc = "request"])
    /\ UNCHANGED <<_api_cache, now, other_vars>>

\* lines 53-83: the request and the normalisation of its answer; a failure or
\* a body without a list returns None
CallerRequest(c) ==
    LET me == conc.thread[c] IN
    /\ me.pc = "request"
    /\ \E reply \in ConcurrentApiReplies :
         IF request_failed(reply) \/ orders_list(reply.body) = None
         THEN Thread(c, [me EXCEPT !.pc = "return", !.ret = None])
         ELSE /\ conc.fetches < MaxFetches
              /\ conc' = [conc EXCEPT
                         !.fetches = @ + 1,
                         !.thread[c] = [me EXCEPT !.pc = "write_data",
                                                  !.orders_list = orders_list(reply.body),
                                                  !.id = conc.fetches + 1]]
    /\ UNCHANGED <<_api_cache, now, other_vars>>

\* line 86: _api_cache["data"] = orders_list
CallerWriteData(c) ==
    LET me == conc.thread[c] IN
    /\ me.pc = "write_data"
    /\ _api_cache' = [_api_cache EXCEPT !.data = me.orders_list]
    /\ conc' = [conc EXCEPT !.data_from = me.id,
                            !.thread[c] = [me EXCEPT !.pc = "write_timestamp"]]
    /\ UNCHANGED <<now, other_vars>>

\* lines 87-89: _api_cache["timestamp"] = now; return orders_list
CallerWriteTimestamp(c) ==
    LET me == conc.thread[c] IN
    /\ me.pc = "write_timestamp"
    /\ _api_cache' = [_api_cache EXCEPT !.timestamp = Some(me.at)]
    /\ conc' = [conc EXCEPT !.timestamp_from = me.id,
                            !.thread[c] = [me EXCEPT !.pc = "return",
                                                     !.ret = me.orders_list]]
    /\ UNCHANGED <<now, other_vars>>

\* The call returns to the thread's caller
CallerReturn(c) ==
    /\ conc.thread[c].pc = "return"
    /\ Thread(c, Idle)
    /\ UNCHANGED <<_api_cache, now, other_vars>>

\* A minute passes
ConcurrentTick ==
    /\ now < MaxNow
    /\ now' = now + 1
    /\ UNCHANGED <<_api_cache, conc, other_vars>>

NextConcurrent ==
    \/ \E c \in Callers :
         \/ CallerStart(c)
         \/ CallerCheck(c)
         \/ CallerRequest(c)
         \/ CallerWriteData(c)
         \/ CallerWriteTimestamp(c)
         \/ CallerReturn(c)
    \/ ConcurrentTick

SpecConcurrent == InitConcurrent /\ [][NextConcurrent]_vars

\* The thread is past the test of line 46 and has not yet returned
Fetching(c) == conc.thread[c].pc \in {"request", "write_data", "write_timestamp"}

\* No thread is between line 86 and line 87
NoWriteUnderWay == \A c \in Callers : conc.thread[c].pc # "write_timestamp"

\* C14: with two callers on the shared entry, the two are never both between
\* the test of the cache and the end of the write; and whenever no write is
\* under way the entry's data and timestamp come from the same fetch, a
\* present data having a present timestamp.
C14_ConcurrentFetchesAreExclusive ==
    /\ ~(Fetching(1) /\ Fetching(2))
    /\ NoWriteUnderWay =>
        /\ conc.data_from = conc.timestamp_from
        /\ _api_cache.data # None => _api_cache.timestamp # None

====
